---- MODULE Spec2Model ----
(***************************************************************************)
(* A model of src/strictly_upper_triangular_matrix.rs: the bit matrix     *)
(* StrictlyUpperTriangularMatrix, its index mapping, its two constructors, *)
(* get / set, and the two cursors EdgesIterator and NeighboursIterator.    *)
(*                                                                         *)
(* One client owns one matrix.  The borrow rules of the language are part  *)
(* of the model: set takes &mut self, so it is only possible while no      *)
(* iterator (a shared borrow of the matrix) is alive.                      *)
(***************************************************************************)
EXTENDS Integers, Sequences, FiniteSets

VARIABLES
    target,       \* the build: the width of usize (bits, limit = 2^bits), and
                  \* whether an overflow panics
    constructed,  \* FALSE when the constructor panicked: there is no matrix
    size,         \* StrictlyUpperTriangularMatrix.size
    matrix,       \* StrictlyUpperTriangularMatrix.matrix, the FixedBitSet
    edges,        \* the EdgesIterator handed out by iter_ones, if alive, with
                  \* what it yielded (out) and the positions it read (seen)
    neigh,        \* the NeighboursIterator handed out by iter_neighbours
    last,         \* the most recent constructor / get / set / iter_neighbours call
    written,      \* history: the pairs whose most recent set passed true
    fresh,        \* history: nothing was set since zeroed
    hist          \* history: the set(_, _, true) calls since zeroed, in order

vars == <<target, constructed, size, matrix, edges, neigh, last, written, fresh, hist>>

\* ------------------------------------------------------------- bounds
MaxSize == 3      \* sizes 0..MaxSize; arguments range over 0..MaxSize
MaxOnes == 2      \* length of the list given to from_ones
MaxHist == 2      \* length of the recorded history of set(_, _, true)
MaxNones == 2     \* next() calls answered None that one iterator records
UsizeBits == 16   \* width of usize where the sizes up to MaxSize cannot overflow
WordBits == 3     \* widest usize of the narrow targets, where they can
MaxIndexSize == 6 \* sizes of the specification of the index mapping

Sizes == 0..MaxSize
Args == 0..MaxSize
\* The pairs the structure stores: i < j < n.
valid_pairs(n) == {p \in (0..(n - 1)) \X (0..(n - 1)) : p[1] < p[2]}

\* The pairs a list given to from_ones(n, _) is made of: the valid pairs and
\* one pair failing each assertion of the index mapping.
OnesPairs(n) == valid_pairs(n) \cup {<<n, n + 1>>, <<0, n>>, <<0, 0>>}

RECURSIVE SeqsUpTo(_, _)
SeqsUpTo(S, n) ==
    IF n = 0 THEN {<<>>}
    ELSE LET shorter == SeqsUpTo(S, n - 1)
         IN  shorter \cup {Append(s, x) : s \in {t \in shorter : Len(t) = n - 1}, x \in S}

\* ------------------------------------------------------ FixedBitSet
\* FixedBitSet::with_capacity: capacity bits, all false.
with_capacity(capacity) == [k \in 0..(capacity - 1) |-> FALSE]

\* FixedBitSet's Index<usize>: a bit outside the capacity reads as false.
bit_index(bits, k) == k \in DOMAIN bits /\ bits[k]

\* FixedBitSet::set panics on a bit outside the capacity.
bit_set(bits, k, v) ==
    IF k \in DOMAIN bits
    THEN [status |-> "ok", bits |-> [bits EXCEPT ![k] = v]]
    ELSE [status |-> "panic", bits |-> bits]

\* ------------------------------------------------------------ usize
\* The usize result of an arithmetic operation whose exact value is x: a value
\* of limit = 2^bits or more panics in a build with overflow checks and wraps in one
\* without.
usize(x) ==
    IF x < target.limit THEN [status |-> "ok", val |-> x]
    ELSE IF target.overflow_checks THEN [status |-> "panic", val |-> 0]
    ELSE [status |-> "ok", val |-> x % target.limit]

\* size * i + j, the multiplication first.
usize_mul_add(a, b, c) ==
    LET m == usize(a * b)
    IN  IF m.status = "panic" THEN m ELSE usize(m.val + c)

\* ----------------------------------------------------- index mapping
\* Mutant: the assertion i < j is missing.
get_index_unordered(i, j, sz) ==
    IF ~(i < sz) THEN [status |-> "panic", why |-> "i < m", index |-> 0]
    ELSE IF ~(j < sz) THEN [status |-> "panic", why |-> "j < m", index |-> 0]
    ELSE LET r == usize_mul_add(sz, i, j)
         IN  IF r.status = "panic"
             THEN [status |-> "panic", why |-> "overflow", index |-> 0]
             ELSE [status |-> "ok", why |-> "", index |-> r.val]

\* Mutant: the row term size * i is missing from the index.
get_index_column_only(i, j, sz) ==
    IF ~(i < sz) THEN [status |-> "panic", why |-> "i < m", index |-> 0]
    ELSE IF ~(j < sz) THEN [status |-> "panic", why |-> "j < m", index |-> 0]
    ELSE IF ~(i < j) THEN [status |-> "panic", why |-> "i < j", index |-> 0]
    ELSE [status |-> "ok", why |-> "", index |-> j]

\* Mutant: the assertion j < size is missing.
get_index_no_column_check(i, j, sz) ==
    IF ~(i < sz) THEN [status |-> "panic", why |-> "i < m", index |-> 0]
    ELSE IF ~(i < j) THEN [status |-> "panic", why |-> "i < j", index |-> 0]
    ELSE LET r == usize_mul_add(sz, i, j)
         IN  IF r.status = "panic"
             THEN [status |-> "panic", why |-> "overflow", index |-> 0]
             ELSE [status |-> "ok", why |-> "", index |-> r.val]

\* Mutant: the row is added instead of size * i.
get_index_row_plus_column(i, j, sz) ==
    IF ~(i < sz) THEN [status |-> "panic", why |-> "i < m", index |-> 0]
    ELSE IF ~(j < sz) THEN [status |-> "panic", why |-> "j < m", index |-> 0]
    ELSE IF ~(i < j) THEN [status |-> "panic", why |-> "i < j", index |-> 0]
    ELSE LET r == usize(i + j)
         IN  IF r.status = "panic"
             THEN [status |-> "panic", why |-> "overflow", index |-> 0]
             ELSE [status |-> "ok", why |-> "", index |-> r.val]

get_index_from_row_column(i, j, sz) ==
    IF ~(i < sz) THEN [status |-> "panic", why |-> "i < m", index |-> 0]
    ELSE IF ~(j < sz) THEN [status |-> "panic", why |-> "j < m", index |-> 0]
    ELSE IF ~(i < j) THEN [status |-> "panic", why |-> "i < j", index |-> 0]
    ELSE LET r == usize_mul_add(sz, i, j)
         IN  IF r.status = "panic"
             THEN [status |-> "panic", why |-> "overflow", index |-> 0]
             ELSE [status |-> "ok", why |-> "", index |-> r.val]

\* ------------------------------------------------------------ matrix
\* Mutant: the storage starts with every bit set.
zeroed_all_ones(n) ==
    LET capacity == usize(n * n)
    IN  IF capacity.status = "panic"
        THEN [status |-> "panic", size |-> n, matrix |-> with_capacity(0)]
        ELSE [status |-> "ok", size |-> n,
              matrix |-> [k \in 0..(capacity.val - 1) |-> TRUE]]

\* zeroed: the capacity size * size is computed in usize.
zeroed(n) ==
    LET capacity == usize(n * n)
    IN  IF capacity.status = "panic"
        THEN [status |-> "panic", size |-> n, matrix |-> with_capacity(0)]
        ELSE [status |-> "ok", size |-> n, matrix |-> with_capacity(capacity.val)]

get(sz, bits, i, j) ==
    LET index == get_index_from_row_column(i, j, sz)
    IN  IF index.status = "panic"
        THEN [status |-> "panic", why |-> index.why, ret |-> FALSE]
        ELSE [status |-> "ok", why |-> "", ret |-> bit_index(bits, index.index)]

\* Mutant: set returns the value it wrote.
set_returns_new(sz, bits, i, j, value) ==
    LET index == get_index_from_row_column(i, j, sz)
    IN  IF index.status = "panic"
        THEN [status |-> "panic", why |-> index.why, ret |-> FALSE, bits |-> bits]
        ELSE LET w == bit_set(bits, index.index, value)
             IN  IF w.status = "panic"
                 THEN [status |-> "panic", why |-> "bit out of bounds",
                       ret |-> FALSE, bits |-> bits]
                 ELSE [status |-> "ok", why |-> "", ret |-> value, bits |-> w.bits]

\* Mutant: set writes true whatever value it is given.
set_ignores_value(sz, bits, i, j, value) ==
    LET index == get_index_from_row_column(i, j, sz)
    IN  IF index.status = "panic"
        THEN [status |-> "panic", why |-> index.why, ret |-> FALSE, bits |-> bits]
        ELSE LET current == bit_index(bits, index.index)
                 w == bit_set(bits, index.index, TRUE)
             IN  IF w.status = "panic"
                 THEN [status |-> "panic", why |-> "bit out of bounds",
                       ret |-> FALSE, bits |-> bits]
                 ELSE [status |-> "ok", why |-> "", ret |-> current, bits |-> w.bits]

set(sz, bits, i, j, value) ==
    LET index == get_index_from_row_column(i, j, sz)
    IN  IF index.status = "panic"
        THEN [status |-> "panic", why |-> index.why, ret |-> FALSE, bits |-> bits]
        ELSE LET current == bit_index(bits, index.index)
                 w == bit_set(bits, index.index, value)
             IN  IF w.status = "panic"
                 THEN [status |-> "panic", why |-> "bit out of bounds",
                       ret |-> FALSE, bits |-> bits]
                 ELSE [status |-> "ok", why |-> "", ret |-> current, bits |-> w.bits]

\* Mutant: the loop stops one pair short of the end of the list.
RECURSIVE from_ones_loop_drops_last(_, _, _)
from_ones_loop_drops_last(sz, bits, ones) ==
    IF Len(ones) <= 1 THEN [status |-> "ok", size |-> sz, matrix |-> bits]
    ELSE LET r == set(sz, bits, Head(ones)[1], Head(ones)[2], TRUE)
         IN  IF r.status = "panic"
             THEN [status |-> "panic", size |-> sz, matrix |-> bits]
             ELSE from_ones_loop_drops_last(sz, r.bits, Tail(ones))

\* Mutant: a listed pair is flipped instead of set, so a duplicate clears it.
RECURSIVE from_ones_loop_toggles(_, _, _)
from_ones_loop_toggles(sz, bits, ones) ==
    IF ones = <<>> THEN [status |-> "ok", size |-> sz, matrix |-> bits]
    ELSE LET g == get(sz, bits, Head(ones)[1], Head(ones)[2])
             r == set(sz, bits, Head(ones)[1], Head(ones)[2], ~g.ret)
         IN  IF r.status = "panic"
             THEN [status |-> "panic", size |-> sz, matrix |-> bits]
             ELSE from_ones_loop_toggles(sz, r.bits, Tail(ones))

RECURSIVE from_ones_loop(_, _, _)
from_ones_loop(sz, bits, ones) ==
    IF ones = <<>> THEN [status |-> "ok", size |-> sz, matrix |-> bits]
    ELSE LET r == set(sz, bits, Head(ones)[1], Head(ones)[2], TRUE)
         IN  IF r.status = "panic"
             THEN [status |-> "panic", size |-> sz, matrix |-> bits]
             ELSE from_ones_loop(sz, r.bits, Tail(ones))

from_ones(n, ones) ==
    LET result == zeroed(n)
    IN  IF result.status = "panic"
        THEN [status |-> "panic", size |-> n, matrix |-> result.matrix]
        ELSE from_ones_loop(n, result.matrix, ones)

\* ------------------------------------------------------- EdgesIterator
\* Mutant: the cursor starts on the diagonal, at (0, 0).
EdgesIterator_new_diagonal == [i |-> 0, j |-> 0]

\* EdgesIterator::new: the cursor starts at (0, 1).
EdgesIterator_new == [i |-> 0, j |-> 1]

\* Mutant: an exhausted iterator rewinds its cursor to (0, 1).
RECURSIVE EdgesIterator_next_rewinds(_, _, _, _)
EdgesIterator_next_rewinds(sz, bits, i, j) ==
    IF i < sz
    THEN IF j < sz
         THEN LET index == get_index_from_row_column(i, j, sz)
              IN  IF index.status = "panic"
                  THEN [i |-> i, j |-> j, ret |-> "panic", item |-> <<0, 0>>,
                        seen |-> {}]
                  ELSE IF bit_index(bits, index.index)
                       THEN [i |-> i, j |-> j + 1, ret |-> "some", item |-> <<i, j>>,
                             seen |-> {<<i, j>>}]
                       ELSE LET rest == EdgesIterator_next_rewinds(sz, bits, i, j + 1)
                            IN  [rest EXCEPT !.seen = {<<i, j>>} \cup @]
         ELSE EdgesIterator_next_rewinds(sz, bits, i + 1, j)
    ELSE [i |-> 0, j |-> 1, ret |-> "none", item |-> <<0, 0>>, seen |-> {}]

\* Mutant: the column yielded is the cursor after its increment, not current_j.
RECURSIVE EdgesIterator_next_yields_cursor(_, _, _, _)
EdgesIterator_next_yields_cursor(sz, bits, i, j) ==
    IF i < sz
    THEN IF j < sz
         THEN LET index == get_index_from_row_column(i, j, sz)
              IN  IF index.status = "panic"
                  THEN [i |-> i, j |-> j, ret |-> "panic", item |-> <<0, 0>>,
                        seen |-> {}]
                  ELSE IF bit_index(bits, index.index)
                       THEN [i |-> i, j |-> j + 1, ret |-> "some",
                             item |-> <<i, j + 1>>, seen |-> {<<i, j>>}]
                       ELSE LET rest == EdgesIterator_next_yields_cursor(sz, bits, i, j + 1)
                            IN  [rest EXCEPT !.seen = {<<i, j>>} \cup @]
         ELSE EdgesIterator_next_yields_cursor(sz, bits, i + 1, j)
    ELSE [i |-> i, j |-> j, ret |-> "none", item |-> <<0, 0>>, seen |-> {}]

\* One call of EdgesIterator::next from the cursor (i, j): the two nested
\* while loops, run until the call returns.  seen records the positions whose
\* bit the call read.
RECURSIVE EdgesIterator_next(_, _, _, _)
EdgesIterator_next(sz, bits, i, j) ==
    IF i < sz
    THEN IF j < sz
         THEN LET index == get_index_from_row_column(i, j, sz)
              IN  IF index.status = "panic"
                  THEN [i |-> i, j |-> j, ret |-> "panic", item |-> <<0, 0>>,
                        seen |-> {}]
                  ELSE IF bit_index(bits, index.index)
                       THEN [i |-> i, j |-> j + 1, ret |-> "some", item |-> <<i, j>>,
                             seen |-> {<<i, j>>}]
                       ELSE LET rest == EdgesIterator_next(sz, bits, i, j + 1)
                            IN  [rest EXCEPT !.seen = {<<i, j>>} \cup @]
         ELSE EdgesIterator_next(sz, bits, i + 1, j)
    ELSE [i |-> i, j |-> j, ret |-> "none", item |-> <<0, 0>>, seen |-> {}]

\* -------------------------------------------------- NeighboursIterator
\* Mutant: the scan stops one column before the last.
RECURSIVE NeighboursIterator_next_stops_early(_, _, _, _)
NeighboursIterator_next_stops_early(sz, bits, left_vertex, right_vertex) ==
    IF right_vertex + 1 < sz
    THEN LET g == get(sz, bits, left_vertex, right_vertex)
         IN  IF g.status = "panic"
             THEN [right_vertex |-> right_vertex, ret |-> "panic", item |-> 0]
             ELSE IF g.ret
                  THEN [right_vertex |-> right_vertex + 1, ret |-> "some",
                        item |-> right_vertex]
                  ELSE NeighboursIterator_next_stops_early(sz, bits, left_vertex,
                                                           right_vertex + 1)
    ELSE [right_vertex |-> right_vertex, ret |-> "none", item |-> 0]

\* Mutant: the cursor is not advanced past a neighbour that is yielded.
RECURSIVE NeighboursIterator_next_stuck(_, _, _, _)
NeighboursIterator_next_stuck(sz, bits, left_vertex, right_vertex) ==
    IF right_vertex < sz
    THEN LET g == get(sz, bits, left_vertex, right_vertex)
         IN  IF g.status = "panic"
             THEN [right_vertex |-> right_vertex, ret |-> "panic", item |-> 0]
             ELSE IF g.ret
                  THEN [right_vertex |-> right_vertex, ret |-> "some",
                        item |-> right_vertex]
                  ELSE NeighboursIterator_next_stuck(sz, bits, left_vertex,
                                                     right_vertex + 1)
    ELSE [right_vertex |-> right_vertex, ret |-> "none", item |-> 0]

\* One call of NeighboursIterator::next from the cursor right_vertex.
RECURSIVE NeighboursIterator_next(_, _, _, _)
NeighboursIterator_next(sz, bits, left_vertex, right_vertex) ==
    IF right_vertex < sz
    THEN LET g == get(sz, bits, left_vertex, right_vertex)
         IN  IF g.status = "panic"
             THEN [right_vertex |-> right_vertex, ret |-> "panic", item |-> 0]
             ELSE IF g.ret
                  THEN [right_vertex |-> right_vertex + 1, ret |-> "some",
                        item |-> right_vertex]
                  ELSE NeighboursIterator_next(sz, bits, left_vertex, right_vertex + 1)
    ELSE [right_vertex |-> right_vertex, ret |-> "none", item |-> 0]

\* Mutant: the assertion reads u <= size.
iter_neighbours_off_by_one(sz, u) ==
    IF ~(u <= sz)
    THEN [status |-> "panic", left_vertex |-> 0, right_vertex |-> 0]
    ELSE [status |-> "ok", left_vertex |-> u, right_vertex |-> u + 1]

\* iter_neighbours: the assertion u < size, then the cursor u + 1.
iter_neighbours(sz, u) ==
    IF ~(u < sz)
    THEN [status |-> "panic", left_vertex |-> 0, right_vertex |-> 0]
    ELSE [status |-> "ok", left_vertex |-> u, right_vertex |-> u + 1]

\* m.iter_neighbours(u).collect(): next() called until it returns None, from
\* the cursor right_vertex on.
RECURSIVE collect_neighbours(_, _, _, _)
collect_neighbours(sz, bits, left_vertex, right_vertex) ==
    LET r == NeighboursIterator_next(sz, bits, left_vertex, right_vertex)
    IN  IF r.ret = "some"
        THEN <<r.item>> \o collect_neighbours(sz, bits, left_vertex, r.right_vertex)
        ELSE <<>>

\* ------------------------------------------------------------- state
Call(op, i, j, v, status, why, ret, ones) ==
    [op |-> op, i |-> i, j |-> j, v |-> v, status |-> status, why |-> why,
     ret |-> ret, ones |-> ones]

NoEdges == [live |-> FALSE, i |-> 0, j |-> 0, ret |-> "new", out |-> <<>>, nones |-> 0,
            seen |-> {}]
NoNeigh == [live |-> FALSE, left_vertex |-> 0, right_vertex |-> 0, ret |-> "new",
            out |-> <<>>, nones |-> 0]
NoHist == [tracked |-> FALSE, seq |-> <<>>]

RECURSIVE Range(_)
Range(s) == IF s = <<>> THEN {} ELSE {Head(s)} \cup Range(Tail(s))

\* let m = StrictlyUpperTriangularMatrix::zeroed(n); a panic of the capacity
\* computation leaves the client without a matrix.
InitZeroed(n, track) ==
    LET r == zeroed(n)
    IN  /\ constructed = (r.status = "ok")
        /\ size = IF r.status = "ok" THEN r.size ELSE 0
        /\ matrix = r.matrix
        /\ last = Call("zeroed", n, 0, FALSE, r.status, "", FALSE, <<>>)
        /\ written = {}
        /\ fresh = (r.status = "ok")
        /\ hist = [tracked |-> track, seq |-> <<>>]
        /\ edges = NoEdges
        /\ neigh = NoNeigh

\* let m = StrictlyUpperTriangularMatrix::from_ones(n, ones); a panic of one
\* of its set calls leaves the client without a matrix.
InitFromOnes(n, ones) ==
    LET r == from_ones(n, ones)
    IN  /\ constructed = (r.status = "ok")
        /\ size = IF r.status = "ok" THEN r.size ELSE 0
        /\ matrix = IF r.status = "ok" THEN r.matrix ELSE with_capacity(0)
        /\ last = Call("from_ones", n, 0, FALSE, r.status, "", FALSE, ones)
        /\ written = IF r.status = "ok" THEN Range(ones) ELSE {}
        /\ fresh = FALSE
        /\ hist = NoHist
        /\ edges = NoEdges
        /\ neigh = NoNeigh

\* The build of the main specifications: usize is wide enough for every
\* size * size and size * i + j of the sizes up to MaxSize, so that the two
\* kinds of build behave alike; an overflow would show as a panic.
WideTarget == [bits |-> UsizeBits, limit |-> 2 ^ UsizeBits, overflow_checks |-> TRUE]

Init ==
    /\ target = WideTarget
    /\ \E n \in Sizes :
           \/ InitZeroed(n, FALSE)
           \/ \E ones \in SeqsUpTo(OnesPairs(n), MaxOnes) : InitFromOnes(n, ones)

\* ----------------------------------------------------------- actions
\* m.get(i, j)
Get(i, j) ==
    /\ constructed
    /\ LET r == get(size, matrix, i, j)
       IN  last' = Call("get", i, j, FALSE, r.status, r.why, r.ret, <<>>)
    /\ UNCHANGED <<target, constructed, size, matrix, edges, neigh, written, fresh, hist>>

\* m.set(i, j, value): needs the matrix unborrowed.
Set(i, j, value) ==
    /\ constructed
    /\ ~edges.live
    /\ ~neigh.live
    /\ LET r == set(size, matrix, i, j, value)
       IN  /\ matrix' = r.bits
           /\ last' = Call("set", i, j, value, r.status, r.why, r.ret, <<>>)
           /\ written' = IF r.status = "panic" THEN written
                         ELSE IF value THEN written \cup {<<i, j>>}
                         ELSE written \ {<<i, j>>}
           /\ fresh' = (fresh /\ r.status = "panic")
           /\ hist' = IF r.status = "panic" THEN hist
                      ELSE IF hist.tracked /\ value /\ Len(hist.seq) < MaxHist
                      THEN [hist EXCEPT !.seq = Append(@, <<i, j>>)]
                      ELSE NoHist
    /\ UNCHANGED <<target, constructed, size, edges, neigh>>

\* let it = m.iter_ones()
IterOnes ==
    /\ constructed
    /\ ~edges.live
    /\ edges' = [live |-> TRUE, i |-> EdgesIterator_new.i, j |-> EdgesIterator_new.j,
                 ret |-> "new", out |-> <<>>, nones |-> 0, seen |-> {}]
    /\ UNCHANGED <<target, constructed, size, matrix, neigh, last, written, fresh, hist>>

\* it.next() on the edge iterator
EdgesNext ==
    /\ edges.live
    /\ edges.nones < MaxNones
    /\ LET r == EdgesIterator_next(size, matrix, edges.i, edges.j)
       IN  edges' = [live |-> TRUE, i |-> r.i, j |-> r.j, ret |-> r.ret,
                     out |-> IF r.ret = "some" THEN Append(edges.out, r.item)
                             ELSE edges.out,
                     nones |-> IF r.ret = "none" THEN edges.nones + 1 ELSE edges.nones,
                     seen |-> edges.seen \cup r.seen]
    /\ UNCHANGED <<target, constructed, size, matrix, neigh, last, written, fresh, hist>>

\* the edge iterator goes out of scope
DropEdges ==
    /\ edges.live
    /\ edges' = NoEdges
    /\ UNCHANGED <<target, constructed, size, matrix, neigh, last, written, fresh, hist>>

\* let it = m.iter_neighbours(u)
IterNeighbours(u) ==
    /\ constructed
    /\ ~neigh.live
    /\ LET r == iter_neighbours(size, u)
       IN  /\ last' = Call("iter_neighbours", u, 0, FALSE, r.status, "", FALSE, <<>>)
           /\ neigh' = IF r.status = "panic" THEN neigh
                       ELSE [live |-> TRUE, left_vertex |-> r.left_vertex,
                             right_vertex |-> r.right_vertex, ret |-> "new",
                             out |-> <<>>, nones |-> 0]
    /\ UNCHANGED <<target, constructed, size, matrix, edges, written, fresh, hist>>

\* it.next() on the neighbour iterator
NeighboursNext ==
    /\ neigh.live
    /\ neigh.nones < MaxNones
    /\ LET r == NeighboursIterator_next(size, matrix, neigh.left_vertex,
                                        neigh.right_vertex)
       IN  neigh' = [neigh EXCEPT
                         !.right_vertex = r.right_vertex,
                         !.ret = r.ret,
                         !.out = IF r.ret = "some" THEN Append(@, r.item) ELSE @,
                         !.nones = IF r.ret = "none" THEN @ + 1 ELSE @]
    /\ UNCHANGED <<target, constructed, size, matrix, edges, last, written, fresh, hist>>

\* the neighbour iterator goes out of scope
DropNeigh ==
    /\ neigh.live
    /\ neigh' = NoNeigh
    /\ UNCHANGED <<target, constructed, size, matrix, edges, last, written, fresh, hist>>

Next ==
    \/ \E i \in Args, j \in Args : Get(i, j)
    \/ \E i \in Args, j \in Args, value \in BOOLEAN : Set(i, j, value)
    \/ IterOnes
    \/ EdgesNext
    \/ DropEdges
    \/ \E u \in Args : IterNeighbours(u)
    \/ NeighboursNext
    \/ DropNeigh

Spec == Init /\ [][Next]_vars

\* The construction phase alone, with the set(_, _, true) calls since zeroed
\* recorded: zeroed(n), then get and set.
InitBuild ==
    /\ target = WideTarget
    /\ \E n \in Sizes : InitZeroed(n, TRUE)

NextBuild ==
    \/ \E i \in Args, j \in Args : Get(i, j)
    \/ \E i \in Args, j \in Args, value \in BOOLEAN : Set(i, j, value)

SpecBuild == InitBuild /\ [][NextBuild]_vars

\* The index mapping on larger matrices: zeroed(n), then get, which applies
\* get_index_from_row_column to its arguments.
InitIndex ==
    /\ target = WideTarget
    /\ \E n \in 0..MaxIndexSize : InitZeroed(n, FALSE)

NextIndex == \E i \in 0..MaxIndexSize, j \in 0..MaxIndexSize : Get(i, j)

SpecIndex == InitIndex /\ [][NextIndex]_vars

\* Narrow targets: usize of 2..WordBits bits, built with or without overflow
\* checks; zeroed(n) for every n that usize holds (up to MaxSize), then get
\* and set.
NarrowTargets ==
    {[bits |-> b, limit |-> 2 ^ b, overflow_checks |-> c] : b \in 2..WordBits, c \in BOOLEAN}

InitWord ==
    /\ target \in NarrowTargets
    /\ \E n \in Sizes : n < target.limit /\ InitZeroed(n, FALSE)

NextWord ==
    \/ \E i \in Args, j \in Args : Get(i, j)
    \/ \E i \in Args, j \in Args, value \in BOOLEAN : Set(i, j, value)

SpecWord == InitWord /\ [][NextWord]_vars

\* ============================================================ claims
\* Vocabulary of the statements below.
LexLess(p, q) == p[1] < q[1] \/ (p[1] = q[1] /\ p[2] < q[2])
AscendingPairs(s) == \A k \in 1..(Len(s) - 1) : LexLess(s[k], s[k + 1])
AscendingNats(s) == \A k \in 1..(Len(s) - 1) : s[k] < s[k + 1]
\* The pairs get reports as set, and the forward neighbours get reports for u.
OnesOf(sz, bits) == {p \in valid_pairs(sz) : get(sz, bits, p[1], p[2]).ret}
NeighboursOf(sz, bits, u) == {j \in 0..(sz - 1) : u < j /\ get(sz, bits, u, j).ret}
\* The step just taken was a successful m.set(last'.i, last'.j, last'.v).
SetStep == last'.op = "set" /\ last'.status = "ok" /\ last' # last

\* C1: an iter_ones() iterator driven until next() returns None has yielded
\* exactly the pairs (i, j), i < j < size, with get(i, j) true, each once, in
\* strictly ascending row-major order.
C1_IterOnesYieldsAllOnes ==
    (edges.live /\ edges.ret = "none")
        => /\ Range(edges.out) = OnesOf(size, matrix)
           /\ AscendingPairs(edges.out)

\* C2: an iter_neighbours(u) iterator driven until next() returns None has
\* yielded exactly the vertices j, u < j < size, with get(u, j) true, strictly
\* ascending; no vertex below u is among them.
C2_IterNeighboursYieldsForward ==
    (neigh.live /\ neigh.ret = "none")
        => /\ Range(neigh.out) = NeighboursOf(size, matrix, neigh.left_vertex)
           /\ AscendingNats(neigh.out)
           /\ \A k \in 1..Len(neigh.out) : neigh.out[k] > neigh.left_vertex

\* C2 witness: iter_neighbours(u) ran to its end for a vertex u that has a set
\* edge (i, u) below it and a set edge (u, j) above it.
C2_Witness ==
    /\ neigh.live
    /\ neigh.ret = "none"
    /\ neigh.out # <<>>
    /\ \E i \in 0..(size - 1) :
           i < neigh.left_vertex /\ get(size, matrix, i, neigh.left_vertex).ret

\* C3: get(i, j) of a valid pair is the value of the most recent set on that
\* pair, false when the pair was never set; a get just made returned it.
C3_GetReturnsLastSet ==
    constructed
        => /\ \A p \in valid_pairs(size) :
                  get(size, matrix, p[1], p[2]).ret = (p \in written)
           /\ (last.op = "get" /\ last.status = "ok")
                  => last.ret = (<<last.i, last.j>> \in written)

\* C3 witness: set(i, j, false) just overwrote a true entry while another
\* entry stays true.
C3_Witness ==
    /\ last.op = "set"
    /\ last.status = "ok"
    /\ ~last.v
    /\ last.ret
    /\ ~get(size, matrix, last.i, last.j).ret
    /\ written # {}

\* C4: a successful set(i, j, v) returns what get(i, j) returned right before
\* the call.
C4_SetReturnsPrevious ==
    [][SetStep => last'.ret = get(size, matrix, last'.i, last'.j).ret]_vars

\* C4 witness: a set returned a value different from the one it wrote.
C4_Witness ==
    /\ last.op = "set"
    /\ last.status = "ok"
    /\ last.ret # last.v

\* C5: after zeroed(size), size >= 2, and before any set: every valid get is
\* false and iter_ones() yields nothing.
C5_ZeroedIsEmpty ==
    (fresh /\ size >= 2)
        => /\ \A p \in valid_pairs(size) : ~get(size, matrix, p[1], p[2]).ret
           /\ (last.op = "get" /\ last.status = "ok") => ~last.ret
           /\ edges.live => (edges.out = <<>> /\ edges.ret \in {"new", "none"})

\* C5 witness: on a fresh matrix of size >= 2 a valid get was answered and an
\* edge iterator ran to its end.
C5_Witness ==
    /\ fresh
    /\ size >= 2
    /\ last.op = "get"
    /\ last.status = "ok"
    /\ edges.live
    /\ edges.ret = "none"

\* C6: the matrix from_ones(size, pairs) answers every valid get as the matrix
\* built by zeroed(size) and set(i, j, true) for each pair in list order.
C6_FromOnesIsZeroedThenSets ==
    hist.tracked
        => LET r == from_ones(size, hist.seq)
           IN  /\ r.status = "ok"
               /\ r.size = size
               /\ \A p \in valid_pairs(size) :
                      get(r.size, r.matrix, p[1], p[2]) = get(size, matrix, p[1], p[2])

\* C6 witness: zeroed, then two set(_, _, true) calls on different pairs.
C6_Witness ==
    /\ hist.tracked
    /\ Len(hist.seq) = 2
    /\ hist.seq[1] # hist.seq[2]
    /\ OnesOf(size, matrix) = {hist.seq[1], hist.seq[2]}

\* C7: get(i, j) and set(i, j, v) panic exactly when i >= size or j >= size or
\* i >= j.
C7_GetSetPanicIffInvalid ==
    (constructed /\ last.op \in {"get", "set"})
        => (last.status = "panic"
                <=> (last.i >= size \/ last.j >= size \/ last.i >= last.j))

\* C7 witness: a set panicked on j >= size alone (i < size and i < j hold).
C7_Witness ==
    /\ last.op = "set"
    /\ last.status = "panic"
    /\ last.i < size
    /\ last.i < last.j
    /\ last.j >= size

\* C8: iter_neighbours(u) panics exactly when u >= size; an iterator it
\* returned has u < size and none of its next() calls panics.
C8_IterNeighboursPanicIffOutOfRange ==
    /\ (constructed /\ last.op = "iter_neighbours")
           => (last.status = "panic" <=> last.i >= size)
    /\ neigh.live => (neigh.left_vertex < size /\ neigh.ret # "panic")

\* C8 witness: iter_neighbours(size - 1), whose cursor starts at size, was
\* created and driven to its end.
C8_Witness ==
    /\ neigh.live
    /\ neigh.left_vertex = size - 1
    /\ neigh.right_vertex = size
    /\ neigh.ret = "none"
    /\ last.op = "iter_neighbours"
    /\ last.status = "ok"

\* C9: a successful set(i, j, v) leaves size, the capacity, every other bit of
\* the storage and the get of every other valid pair as they were.
C9_SetChangesOneEntry ==
    [][SetStep =>
          /\ size' = size
          /\ DOMAIN matrix' = DOMAIN matrix
          /\ \A k \in DOMAIN matrix :
                 k # get_index_from_row_column(last'.i, last'.j, size).index
                     => matrix'[k] = matrix[k]
          /\ \A p \in valid_pairs(size) :
                 p # <<last'.i, last'.j>>
                     => get(size', matrix', p[1], p[2]) = get(size, matrix, p[1], p[2])
      ]_vars

\* C9 witness: a set changed its entry while another entry of the same column
\* is true.
C9_Witness ==
    /\ last.op = "set"
    /\ last.status = "ok"
    /\ last.ret # last.v
    /\ \E p \in written : p # <<last.i, last.j>> /\ p[2] = last.j

\* C10: once next() of an iterator returned None, every later next() of that
\* iterator returns None, yields nothing and does not panic.
C10_ExhaustedStaysExhausted ==
    [][/\ (edges.live /\ edges.ret = "none" /\ edges'.live)
              => (edges'.ret = "none" /\ edges'.out = edges.out)
       /\ (neigh.live /\ neigh.ret = "none" /\ neigh'.live)
              => (neigh'.ret = "none" /\ neigh'.out = neigh.out)
      ]_vars

\* C10 witness: both iterators of a matrix with a set entry in row 0 were
\* called again after they had returned None.
C10_Witness ==
    /\ edges.live
    /\ edges.nones >= 2
    /\ neigh.live
    /\ neigh.nones >= 2
    /\ \E p \in written : p[1] = 0

\* C11: iteration never fails once started: no next() of either iterator
\* panics, and the cursor an iterator rests on is such that the next call of
\* the index mapping, made when the cursor is inside the matrix, gets i < j < size.
C11_IterationNeverFails ==
    /\ edges.live
           => /\ edges.ret # "panic"
              /\ (edges.i < size /\ edges.j < size) => edges.i < edges.j
    /\ neigh.live
           => /\ neigh.ret # "panic"
              /\ neigh.left_vertex < size
              /\ neigh.left_vertex < neigh.right_vertex

\* C11 witness: on a matrix of 3 vertices both iterators have just yielded an
\* item, each through the index mapping.
C11_Witness ==
    /\ size = 3
    /\ edges.live
    /\ edges.ret = "some"
    /\ neigh.live
    /\ neigh.ret = "some"

\* C12: zeroed(0) and zeroed(1) succeed; in such a matrix every get and set
\* panics, iter_ones() yields nothing, and iter_neighbours(0) of size 1 yields
\* nothing, none of them panicking.
C12_TinyMatrixHasNoEntries ==
    /\ (last.op = "zeroed" /\ last.i <= 1)
           => (constructed /\ last.status = "ok" /\ size = last.i)
    /\ (constructed /\ size <= 1)
           => /\ \A i \in Args, j \in Args :
                     /\ get(size, matrix, i, j).status = "panic"
                     /\ \A value \in BOOLEAN :
                            set(size, matrix, i, j, value).status = "panic"
              /\ last.op \in {"get", "set"} => last.status = "panic"
              /\ edges.live => (edges.out = <<>> /\ edges.ret \in {"new", "none"})
              /\ neigh.live
                     => /\ size = 1
                        /\ neigh.left_vertex = 0
                        /\ neigh.out = <<>>
                        /\ neigh.ret \in {"new", "none"}

\* C12 witness: on a matrix of size 1 a get panicked and both iter_ones() and
\* iter_neighbours(0) ran to their end.
C12_Witness ==
    /\ constructed
    /\ size = 1
    /\ last.op = "get"
    /\ last.status = "panic"
    /\ edges.live
    /\ edges.ret = "none"
    /\ neigh.live
    /\ neigh.left_vertex = 0
    /\ neigh.ret = "none"

\* C13: the edge iterator moves to the next row when the column cursor reaches
\* size and scans that row from column i + 1: when it reports exhaustion, it
\* has examined every column i+1..size-1 of every row i.
C13_EveryRowExamined ==
    (edges.live /\ edges.ret = "none") => edges.seen = valid_pairs(size)

\* C14: the index mapping size * i + j is injective on the valid pairs
\* i < j < size, and the index of every valid pair lies inside the storage
\* zeroed(size) allocated, of capacity size * size.
C14_IndexInjectiveAndInCapacity ==
    constructed
        => /\ DOMAIN matrix = 0..(size * size - 1)
           /\ \A p \in valid_pairs(size) :
                  LET ip == get_index_from_row_column(p[1], p[2], size)
                  IN  /\ ip.status = "ok"
                      /\ ip.index \in DOMAIN matrix
                      /\ \A q \in valid_pairs(size) :
                             ip.index = get_index_from_row_column(q[1], q[2], size).index
                                 => p = q

\* C14 witness: on a matrix of at least 5 vertices a get went through the
\* index mapping for a pair of a row after the first.
C14_Witness ==
    /\ constructed
    /\ size >= 5
    /\ last.op = "get"
    /\ last.status = "ok"
    /\ last.i >= 1

\* C15: iteration is finite.  A next() that yields an item moves the cursor
\* strictly forward and never past size (column 1, where the cursor starts,
\* on a matrix of size 0), a next() that returns None leaves
\* the cursor at the end, iter_ones() has yielded at most size * (size - 1) / 2
\* items and iter_neighbours(u) at most size - 1 - u.
C15_IterationIsFinite ==
    [][/\ (edges.live /\ edges'.live /\ edges' # edges)
              => /\ edges'.i <= size
                 /\ edges'.j <= size \/ edges'.j = EdgesIterator_new.j
                 /\ edges'.ret = "some"
                        => LexLess(<<edges.i, edges.j>>, <<edges'.i, edges'.j>>)
                 /\ edges'.ret = "none" => edges'.i = size
                 /\ 2 * Len(edges'.out) <= size * (size - 1)
       /\ (neigh.live /\ neigh'.live /\ neigh' # neigh)
              => /\ neigh'.right_vertex <= size
                 /\ neigh'.ret = "some" => neigh.right_vertex < neigh'.right_vertex
                 /\ neigh'.ret = "none" => neigh'.right_vertex = size
                 /\ Len(neigh'.out) <= size - 1 - neigh.left_vertex
      ]_vars

\* C15 witness: on a matrix of 3 vertices iter_neighbours(0) ended after
\* size - 1 - u = 2 items and iter_ones() ended after 2 items.
C15_Witness ==
    /\ size = 3
    /\ edges.live
    /\ edges.ret = "none"
    /\ Len(edges.out) = 2
    /\ neigh.live
    /\ neigh.left_vertex = 0
    /\ neigh.ret = "none"
    /\ Len(neigh.out) = 2

\* C16: with size * size and size * i + j computed in usize, for every size
\* that usize holds the capacity zeroed(size) allocated is greater than the
\* index of every valid pair.
C16_CapacityCoversEveryValidIndex ==
    constructed
        => \A p \in valid_pairs(size) :
               LET ip == get_index_from_row_column(p[1], p[2], size)
               IN  ip.status = "ok" /\ ip.index \in DOMAIN matrix

\* C17: every pair an iter_ones() iterator has yielded is a valid pair whose
\* get is true, and the pairs were yielded in strictly ascending row-major
\* order, none twice.
C17_IterOnesIsSound ==
    edges.live
        => /\ \A k \in 1..Len(edges.out) : edges.out[k] \in OnesOf(size, matrix)
           /\ AscendingPairs(edges.out)

\* C17 witness: an edge iterator has yielded two pairs.
C17_Witness ==
    /\ edges.live
    /\ Len(edges.out) = 2
    /\ edges.ret = "some"

\* The pairs (u, v), v running through iter_neighbours(u), for the vertices
\* from u on in ascending order.
RECURSIVE NeighbourPairsFrom(_, _, _)
NeighbourPairsFrom(sz, bits, u) ==
    IF u >= sz THEN <<>>
    ELSE LET it == iter_neighbours(sz, u)
             vs == collect_neighbours(sz, bits, it.left_vertex, it.right_vertex)
         IN  [k \in 1..Len(vs) |-> <<u, vs[k]>>] \o NeighbourPairsFrom(sz, bits, u + 1)

\* C18: what iter_ones() yields until None is the concatenation, for
\* u = 0, 1, ..., size - 1, of the pairs (u, v) for the v of iter_neighbours(u).
C18_TraversalsAgree ==
    (edges.live /\ edges.ret = "none")
        => edges.out = NeighbourPairsFrom(size, matrix, 0)

\* C19: the matrix from_ones(size, pairs) has get true exactly for the listed
\* pairs, and every list with the same pairs, in another order or with other
\* multiplicities, gives a matrix that agrees with it on every valid get.
C19_FromOnesDependsOnSetOnly ==
    (constructed /\ last.op = "from_ones" /\ ~edges.live /\ ~neigh.live)
        => /\ OnesOf(size, matrix) = Range(last.ones)
           /\ \A other \in SeqsUpTo(valid_pairs(size), MaxOnes) :
                  Range(other) = Range(last.ones)
                      => LET r == from_ones(size, other)
                         IN  /\ r.status = "ok"
                             /\ \A p \in valid_pairs(size) :
                                    get(r.size, r.matrix, p[1], p[2])
                                        = get(size, matrix, p[1], p[2])

\* C19 witness: from_ones built a matrix from a list that names one pair twice.
C19_Witness ==
    /\ constructed
    /\ last.op = "from_ones"
    /\ Len(last.ones) = 2
    /\ last.ones[1] = last.ones[2]
    /\ OnesOf(size, matrix) = {last.ones[1]}

====
